---- MODULE Spec2Model ----
(***************************************************************************)
(* Background tasks of weblate/trans/tasks.py: the repository pipeline     *)
(* tasks (perform_update, perform_load, perform_commit, perform_push) run  *)
(* by the Celery worker pool, the commit_pending scan, the                 *)
(* repository_alerts sweep, update_remotes, the fulltext cleanup and       *)
(* optimize passes with their schedule, cleanup_stale_repos, the sweeps    *)
(* of suggestions and source units, and the removal tasks.                 *)
(*                                                                         *)
(* An optional value (Python None or a value) is a set with at most one    *)
(* element: {} is None, {v} is v.                                          *)
(***************************************************************************)
EXTENDS Integers, Sequences, FiniteSets, TLC

\* ------------------------------------------------------------------ bounds
MaxTasks == 2          \* task messages ever submitted in one behaviour
MaxScanTasks == 3      \* task messages ever enqueued in a scan behaviour
MaxNow == 3            \* the clock stops after this many hours
JitterGrain == 1200    \* spacing of the sampled jittered countdowns (seconds)

\* --------------------------------------------------------------- constants
RetryBackoff == 600    \* retry_backoff=600
RetryBackoffMax == 3600 \* retry_backoff_max=3600
\* The decorators pass no max_retries: Celery's Task.max_retries default (3)
\* applies to the retry that autoretry_for raises.
MaxRetries == 3
\* The decorators pass no retry_jitter: Celery's default (True) applies.
RetryJitter == TRUE
DefaultThreshold == 10 \* repository_alerts(threshold=10)

UnitIds == {1, 2}      \* Unit primary keys
SuggIds == {1, 2, 3}   \* Suggestion primary keys
Texts == {"a", "A"}    \* target texts: two that differ in case only
Hashes == {1, 2}       \* Unit.id_hash values
Langs == <<"cs", "de">>   \* Language codes, in queryset order
Parts == {"cs", "de", "source"}  \* fulltext partitions: one a language, and the source
Paths == {1, 2}        \* path p is <vcs>/<project slug>/<slug> of component p
Comps == {1, 2}        \* Component primary keys
Projects == {1}        \* Project primary keys
Translations == {1, 2, 3}  \* Translation primary keys

\* Component.project: both components belong to the one project.
ProjectOf(c) == 1

\* Translation.component: translations 1 and 2 belong to component 1,
\* translation 3 to component 2.
ComponentOf(t) == IF t = 3 THEN 2 ELSE 1

Kinds == {"update", "load", "commit", "push"}
AlertNames == {"RepositoryOutdated", "RepositoryChanges"}

VARIABLES
    components,          \* primary keys of the Component rows that exist
    projects,            \* primary keys of the Project rows that exist
    lock,                \* lock[c]: the tasks inside component c's repository lock
    tasks,               \* the task messages, in submission order
    now,                 \* timezone.now(), in hours
    last_changed,        \* component.stats.last_changed (optional, hours)
    pending,             \* component.needs_commit()
    commit_pending_age,  \* component.commit_pending_age (hours)
    linked,              \* components that are links (not in with_repo())
    missing,             \* component.repository.count_missing()
    outgoing,            \* component.repository.count_outgoing()
    alerts,              \* alerts[c][name]: number of alert rows of that name
    finished,            \* the periodic task that completed in the last step,
                         \* with its arguments (optional)
    units,               \* primary keys of the Unit rows that exist
    used,                \* Unit primary keys handed out so far (never reused)
    index,               \* index[p]: unit pks stored in fulltext partition p
    built,               \* built[p]: partition p has been written at least once
    cleanup,             \* position of the running cleanup_fulltext pass
    optimize,            \* position of the running optimize_fulltext pass
    day,                 \* day of the week at the last 02:30 (0 is Sunday)
    beat,                \* fulltext tasks sent by the schedule, not yet started
    clock,               \* time(), in seconds
    entries,             \* entries[p]: what <vcs>/<project>/<component> path p is
    mtime,               \* os.path.getmtime of path p
    sweep,               \* position of the running cleanup_stale_repos sweep
    auto_update,         \* settings.AUTO_UPDATE
    changes,             \* the Change rows written by removals and cleanups
    suggestions,         \* suggestions[s]: the Suggestion row s (optional)
    unit_text,           \* unit_text[u]: target and translated of unit u
    suggsweep,           \* position of the running cleanup_suggestions sweep
    source_units,        \* id_hash of the units of component c's source translation
    other_hashes,        \* id_hash of the units of c's other translations
    monolingual,         \* components with a template (template # "")
    srcsweep             \* position of the running cleanup_sources sweep

vars == <<components, projects, lock, tasks, now, last_changed, pending,
          commit_pending_age, linked, missing, outgoing, alerts, finished,
          units, used, index, built, cleanup, optimize, day, beat,
          clock, entries, mtime, sweep, auto_update, changes,
          suggestions, unit_text, suggsweep, source_units, other_hashes,
          monolingual, srcsweep>>

pipelineVars == <<components, projects, lock, tasks>>
scanVars == <<now, last_changed, pending, commit_pending_age>>
alertVars == <<linked, missing, outgoing, alerts>>
indexVars == <<units, used, index, built, cleanup, optimize, day, beat>>
reapVars == <<clock, entries, mtime, sweep>>
suggVars == <<suggestions, unit_text, suggsweep>>
sourceVars == <<source_units, other_hashes, monolingual, srcsweep>>
cleanVars == <<suggVars, sourceVars>>

Min(a, b) == IF a <= b THEN a ELSE b

RECURSIVE Pow2(_)
Pow2(n) == IF n = 0 THEN 1 ELSE 2 * Pow2(n - 1)

\* The elements of a set of integers as an ascending sequence (queryset order).
RECURSIVE SortedSeq(_)
SortedSeq(S) ==
    IF S = {} THEN <<>>
    ELSE LET m == CHOOSE x \in S : \A y \in S : x <= y
         IN <<m>> \o SortedSeq(S \ {m})

\* ------------------------------------------------------------ task executor
\* A task message and the executor's bookkeeping for it: raised is the exception
\* raised inside the task body in the current run, error the exception that
\* left the body.
NewTask(kind, cls, pk, auto, args) ==
    [kind |-> kind, cls |-> cls, pk |-> pk, auto |-> auto, args |-> args,
     state |-> "Queued", pc |-> "queued", todo |-> <<>>,
     retries |-> 0, countdown |-> 0, raised |-> "none", error |-> "none",
     op |-> "none"]

\* Task.delay(): the message is appended to the queue.
Enqueue(q, t) == Append(q, t)

\* Component.objects.get(pk=pk) / Project.objects.get(pk=pk) finds a row.
TargetExists(t) ==
    IF t.cls = "Project" THEN t.pk \in projects ELSE t.pk \in components

\* The components whose repositories the task's stage works on: the component
\* itself, or every component of the project that has its own repository.
TargetComponents(t) ==
    IF t.cls = "Project"
    THEN SortedSeq({c \in components : ProjectOf(c) = t.pk /\ c \notin linked})
    ELSE <<t.pk>>

\* Faulty variant: autoretry_for=(Exception,).
AutoretryForAll == {"Timeout", "DoesNotExist", "FileParseError", "Error"}

\* autoretry_for=(Timeout,): the exceptions the executor retries the task on.
AutoretryFor == {"Timeout"}

\* Faulty variant: the exponent counts the retry being scheduled (1200, 2400, 4800).
RetryCountdownDoubled(retries) ==
    Min(RetryBackoffMax * 2, RetryBackoff * Pow2(retries + 1))

\* Celery's get_exponential_backoff_interval before jitter, with the
\* decorator's retry_backoff and retry_backoff_max: min(maximum, factor * 2^retries),
\* retries being request.retries at the time of the failure (0 at the first).
RetryCountdownMax(retries) == Min(RetryBackoffMax, RetryBackoff * Pow2(retries))

\* The countdowns the retry may be scheduled with: with full jitter
\* random.randrange(countdown + 1), sampled every JitterGrain seconds and at
\* both ends; without jitter the countdown itself.
Countdowns(retries) ==
    LET top == RetryCountdownMax(retries)
    IN IF RetryJitter
       THEN {k * JitterGrain : k \in 0..(top \div JitterGrain)} \cup {top}
       ELSE {top}

\* Faulty variant: perform_update without its except clause.
SwallowsNothing(kind, exc) == FALSE

\* except FileParseError: return (perform_update only).
Swallows(kind, exc) == kind = "update" /\ exc = "FileParseError"

\* What the executor makes of exception exc leaving the body of task t: an
\* autoretry_for exception calls Task.retry, which reschedules the task unless
\* request.retries + 1 exceeds max_retries; every other exception, and the
\* retry past max_retries, fails the task with the exception.
Raise(t, exc) ==
    IF exc \in AutoretryFor /\ t.retries + 1 <= MaxRetries
    THEN {[t EXCEPT !.state = "Retrying", !.pc = "retry", !.todo = <<>>,
                    !.retries = t.retries + 1, !.countdown = d,
                    !.raised = exc, !.error = exc] : d \in Countdowns(t.retries)}
    ELSE {[t EXCEPT !.state = "Failed", !.pc = "end", !.todo = <<>>,
                    !.raised = exc, !.error = exc]}

\* The task body returned.
Return(t) == [t EXCEPT !.state = "Done", !.pc = "end", !.todo = <<>>]

\* ---------------------------------------------------------- repository lock
\* Faulty variant: a lock that lets everybody in.
LockFreeAlways(c) == TRUE

\* Faulty variant: one lock for all repositories.
LockFreeGlobal(c) == \A d \in Comps : lock[d] = {}

\* The repository lock of component c can be taken: nobody is inside it.
LockFree(c) == lock[c] = {}

\* What a stage can end with: success, a parse failure, any other error.
StageOutcomes == {"ok", "FileParseError", "Error"}

\* settings.AUTO_UPDATE: the three modes and the two booleans kept for
\* compatibility, written here as strings.
AutoUpdateModes == {"full", "remote", "none", "True", "False"}

\* Faulty variant: the update ignores how it was triggered.
UpdateOpByModeOnly(auto) ==
    IF auto_update \in {"full", "True"} THEN "do_update"
    ELSE "update_remote_branch"

\* if settings.AUTO_UPDATE in ("full", True) or not auto: obj.do_update()
\* else: obj.update_remote_branch()
UpdateOp(auto) ==
    IF auto_update \in {"full", "True"} \/ ~auto THEN "do_update"
    ELSE "update_remote_branch"

\* The method of the component that the stage of task t calls.
StageOp(t) ==
    CASE t.kind = "update" -> UpdateOp(t.auto)
      [] t.kind = "load" -> "create_translations"
      [] t.kind = "commit" -> "commit_pending"
      [] t.kind = "push" -> "do_push"

\* ------------------------------------------------------------------ actions
\* A caller submits perform_update(cls, pk, auto), perform_load(pk),
\* perform_commit(pk) or perform_push(pk) for an object that exists.
Submit(kind, cls, pk, auto) ==
    /\ Len(tasks) < MaxTasks
    /\ IF cls = "Project" THEN kind = "update" /\ pk \in projects
       ELSE pk \in components
    /\ auto => kind = "update"
    /\ tasks' = Enqueue(tasks, NewTask(kind, cls, pk, auto, "manual"))
    /\ finished' = {}
    /\ UNCHANGED <<indexVars, reapVars, cleanVars, auto_update, changes,
                   components, projects, lock, scanVars, alertVars>>

\* A worker takes queued task i and runs its body up to the first lock:
\* the objects.get(pk=pk) lookup, which raises DoesNotExist for a missing row.
Start(i) ==
    LET t == tasks[i] IN
    /\ t.state = "Queued"
    /\ IF TargetExists(t)
       THEN LET todo == TargetComponents(t) IN
            tasks' = [tasks EXCEPT ![i] =
                IF todo = <<>> THEN Return(t)
                ELSE [t EXCEPT !.state = "Running", !.pc = "lock", !.todo = todo]]
       ELSE \E t2 \in Raise(t, "DoesNotExist") :
                tasks' = [tasks EXCEPT ![i] = t2]
    /\ finished' = {}
    /\ UNCHANGED <<indexVars, reapVars, cleanVars, auto_update, changes,
                   components, projects, lock, scanVars, alertVars>>

\* Task i asks for the repository lock of the component it works on next:
\* it enters the lock, or the acquisition times out and Timeout leaves the body.
Acquire(i) ==
    LET t == tasks[i]
        c == Head(t.todo) IN
    /\ t.state = "Running" /\ t.pc = "lock"
    /\ IF LockFree(c)
       THEN /\ lock' = [lock EXCEPT ![c] = lock[c] \cup {i}]
            /\ tasks' = [tasks EXCEPT ![i].pc = "stage"]
       ELSE /\ \E t2 \in Raise(t, "Timeout") : tasks' = [tasks EXCEPT ![i] = t2]
            /\ UNCHANGED lock
    /\ finished' = {}
    /\ UNCHANGED <<indexVars, reapVars, cleanVars, auto_update, changes,
                   components, projects, scanVars, alertVars>>

\* Task i runs its stage on the component whose lock it holds (do_update or
\* update_remote_branch, create_translations, commit_pending, do_push) and
\* leaves the lock; the stage ends with out: it succeeds or raises.
RunStageWith(i, out) ==
    LET t == [tasks[i] EXCEPT !.op = StageOp(tasks[i])]
        c == Head(t.todo) IN
    /\ t.state = "Running" /\ t.pc = "stage"
    /\ lock' = [lock EXCEPT ![c] = lock[c] \ {i}]
    /\ IF out = "ok"
       THEN /\ tasks' = [tasks EXCEPT ![i] =
                  IF Tail(t.todo) = <<>> THEN Return(t)
                  ELSE [t EXCEPT !.pc = "lock", !.todo = Tail(t.todo)]]
            /\ pending' = IF t.kind = "commit"
                          THEN [pending EXCEPT ![c] = FALSE] ELSE pending
       ELSE /\ IF Swallows(t.kind, out)
               THEN tasks' = [tasks EXCEPT ![i] = Return([t EXCEPT !.raised = out])]
               ELSE \E t2 \in Raise(t, out) : tasks' = [tasks EXCEPT ![i] = t2]
            /\ UNCHANGED pending
    /\ finished' = {}
    /\ UNCHANGED <<indexVars, reapVars, cleanVars, auto_update, changes,
                   components, projects, now, last_changed, commit_pending_age,
                   alertVars>>

RunStage(i) == \E out \in StageOutcomes : RunStageWith(i, out)

\* The countdown of a retried task has passed: it is queued again.
Requeue(i) ==
    /\ tasks[i].state = "Retrying"
    /\ tasks' = [tasks EXCEPT ![i].state = "Queued", ![i].pc = "queued",
                              ![i].countdown = 0, ![i].raised = "none",
                              ![i].error = "none"]
    /\ finished' = {}
    /\ UNCHANGED <<indexVars, reapVars, cleanVars, auto_update, changes,
                   components, projects, lock, scanVars, alertVars>>

\* A component is deleted.
DeleteComponent(c) ==
    /\ c \in components
    /\ components' = components \ {c}
    /\ finished' = {}
    /\ UNCHANGED <<indexVars, reapVars, cleanVars, auto_update, changes,
                   projects, lock, tasks, scanVars, alertVars>>

\* A project is deleted, and its components with it.
DeleteProject(p) ==
    /\ p \in projects
    /\ projects' = projects \ {p}
    /\ components' = {c \in components : ProjectOf(c) # p}
    /\ finished' = {}
    /\ UNCHANGED <<indexVars, reapVars, cleanVars, auto_update, changes,
                   lock, tasks, scanVars, alertVars>>

\* -------------------------------------------------------- commit_pending scan
\* The hours argument of commit_pending (optional) and its pks argument
\* (optional set of Translation primary keys).
HoursArgs == {{}, {0}, {1}, {2}}
PksArgs == {{}} \cup {{S} : S \in SUBSET Translations}

\* Faulty variant: the queryset without .distinct(): the join yields a component once
\* for every matching translation.
CandidatesJoined(pks) ==
    IF pks = {} THEN SortedSeq(components)
    ELSE LET S == CHOOSE x \in pks : TRUE
             ts == SortedSeq({t \in S : ComponentOf(t) \in components})
         IN [k \in 1..Len(ts) |-> ComponentOf(ts[k])]

\* Component.objects.all(), or
\* Component.objects.filter(translation__pk__in=pks).distinct().
Candidates(pks) ==
    IF pks = {} THEN SortedSeq(components)
    ELSE LET S == CHOOSE x \in pks : TRUE
         IN SortedSeq({c \in components :
                          \E t \in S : t \in Translations /\ ComponentOf(t) = c})

\* Faulty variant: a change made exactly the threshold ago is still too recent.
ScanCommitsStrict(c, hours) ==
    LET h == IF hours = {} THEN commit_pending_age[c]
             ELSE CHOOSE x \in hours : TRUE
        age == now - h
    IN /\ last_changed[c] # {}
       /\ ~(\E lc \in last_changed[c] : lc >= age)
       /\ pending[c]

\* The loop body's three tests: the component has a last change, the change
\* is not after age = now - hours (its own commit_pending_age when hours is
\* None), and needs_commit().
ScanCommits(c, hours) ==
    LET h == IF hours = {} THEN commit_pending_age[c]
             ELSE CHOOSE x \in hours : TRUE
        age == now - h
    IN /\ last_changed[c] # {}
       /\ ~(\E lc \in last_changed[c] : lc > age)
       /\ pending[c]

\* The reason argument of the perform_commit the scan enqueues.
CommitReason == "commit_pending"

\* The perform_commit messages the scan enqueues for the candidates cs, in order.
RECURSIVE ScanMessages(_, _)
ScanMessages(cs, hours) ==
    IF cs = <<>> THEN <<>>
    ELSE (IF ScanCommits(Head(cs), hours)
          THEN <<NewTask("commit", "Component", Head(cs), FALSE, CommitReason)>>
          ELSE <<>>) \o ScanMessages(Tail(cs), hours)

\* commit_pending(hours, pks): one scan.
commit_pending(hours, pks) ==
    LET msgs == ScanMessages(Candidates(pks), hours) IN
    /\ Len(tasks) + Len(msgs) <= MaxScanTasks
    /\ tasks' = tasks \o msgs
    /\ finished' = {[task |-> "commit_pending", hours |-> hours, pks |-> pks,
                     base |-> Len(tasks)]}
    /\ UNCHANGED <<indexVars, reapVars, cleanVars, auto_update, changes,
                   components, projects, lock, scanVars, alertVars>>

\* An hour passes.
Tick ==
    /\ now < MaxNow
    /\ now' = now + 1
    /\ finished' = {}
    /\ UNCHANGED <<indexVars, reapVars, cleanVars, auto_update, changes,
                   pipelineVars, last_changed, pending, commit_pending_age,
                   alertVars>>

\* A translation of component c is edited: the change is recorded and waits
\* to be committed.
Edit(c) ==
    /\ c \in components
    /\ last_changed' = [last_changed EXCEPT ![c] = {now}]
    /\ pending' = [pending EXCEPT ![c] = TRUE]
    /\ finished' = {}
    /\ UNCHANGED <<indexVars, reapVars, cleanVars, auto_update, changes,
                   pipelineVars, now, commit_pending_age, alertVars>>

\* ------------------------------------------------------- repository_alerts
\* The values the VCS counters take, and the thresholds the sweep is run with.
CounterValues == {0, DefaultThreshold - 1, DefaultThreshold, DefaultThreshold + 1}
Thresholds == {0, DefaultThreshold}

\* Component.add_alert(name): the alert row is created unless it exists.
add_alert(a, name) == IF a[name] = 0 THEN [a EXCEPT ![name] = 1] ELSE a

\* Component.delete_alert(name): the alert rows of that name are deleted.
delete_alert(a, name) == [a EXCEPT ![name] = 0]

\* Faulty variant: a counter at the threshold already raises the alert.
ReachesThreshold(count, threshold) == count >= threshold

\* count_missing() > threshold, count_outgoing() > threshold.
AboveThreshold(count, threshold) == count > threshold

\* Faulty variant: the alert row is created without looking for an existing one.
ComponentAlertsCreate(c, threshold) ==
    [n \in AlertNames |->
        LET count == IF n = "RepositoryOutdated" THEN missing[c] ELSE outgoing[c]
        IN IF AboveThreshold(count, threshold) THEN alerts[c][n] + 1 ELSE 0]

\* The loop body for one component: each alert follows its own counter.
ComponentAlerts(c, threshold) ==
    LET a1 == IF AboveThreshold(missing[c], threshold)
              THEN add_alert(alerts[c], "RepositoryOutdated")
              ELSE delete_alert(alerts[c], "RepositoryOutdated")
    IN IF AboveThreshold(outgoing[c], threshold)
       THEN add_alert(a1, "RepositoryChanges")
       ELSE delete_alert(a1, "RepositoryChanges")

\* Component.objects.with_repo(): the components that are not links.
with_repo == components \ linked

\* repository_alerts(threshold): one sweep over the components with a repository.
\* repeat records that the step before was the same sweep.
repository_alerts(threshold) ==
    /\ alerts' = [c \in Comps |->
                    IF c \in with_repo THEN ComponentAlerts(c, threshold)
                    ELSE alerts[c]]
    /\ finished' = {[task |-> "repository_alerts", threshold |-> threshold,
                     repeat |-> \E r \in finished :
                                   /\ r.task = "repository_alerts"
                                   /\ r.threshold = threshold]}
    /\ UNCHANGED <<indexVars, reapVars, cleanVars, auto_update, changes,
                   pipelineVars, scanVars, linked, missing, outgoing>>

\* The repository of component c moves against its remote: the commits missing
\* from it and the commits not yet pushed change.
SetCounters(c, m, o) ==
    /\ c \in components
    /\ <<m, o>> # <<missing[c], outgoing[c]>>
    /\ missing' = [missing EXCEPT ![c] = m]
    /\ outgoing' = [outgoing EXCEPT ![c] = o]
    /\ finished' = {}
    /\ UNCHANGED <<indexVars, reapVars, cleanVars, auto_update, changes,
                   pipelineVars, scanVars, linked, alerts>>

\* --------------------------------------------------------- fulltext index
\* Some other code touched the units or the index: the running pass is no
\* longer undisturbed, and the run of undisturbed passes is broken.
Disturbed(cl) == [cl EXCEPT !.undisturbed = FALSE, !.calm = 0]

\* Faulty variant: the primary key of a deleted unit is given out again.
FreshIdReused(u) == u \notin units

\* Primary keys are never reused.
FreshId(u) == u \notin used

\* A unit is created, with a primary key never used before.
CreateUnit(u) ==
    /\ FreshId(u)
    /\ units' = units \cup {u}
    /\ used' = used \cup {u}
    /\ cleanup' = Disturbed(cleanup)
    /\ finished' = {}
    /\ UNCHANGED <<pipelineVars, scanVars, alertVars, reapVars, cleanVars, auto_update,
                   changes, index, built, optimize, day, beat>>

\* An existing unit is written to partition p of the index.
IndexUnit(u, p) ==
    /\ u \in units
    /\ u \notin index[p]
    /\ index' = [index EXCEPT ![p] = index[p] \cup {u}]
    /\ built' = [built EXCEPT ![p] = TRUE]
    /\ cleanup' = Disturbed(cleanup)
    /\ finished' = {}
    /\ UNCHANGED <<pipelineVars, scanVars, alertVars, reapVars, cleanVars, auto_update,
                   changes, units, used, optimize, day, beat>>

\* A unit is deleted; its index entries are purged with it, or stay behind.
DeleteUnit(u, purge) ==
    /\ u \in units
    /\ units' = units \ {u}
    /\ index' = IF purge THEN [p \in Parts |-> index[p] \ {u}] ELSE index
    /\ cleanup' = Disturbed(cleanup)
    /\ finished' = {}
    /\ UNCHANGED <<pipelineVars, scanVars, alertVars, reapVars, cleanVars, auto_update,
                   changes, used, built, optimize, day, beat>>

\* index.reader() raises EmptyIndexError: the partition was never written.
ReaderFails(p) == ~built[p]

\* Faulty variant: the existence test is inverted.
UnitExistsInverted(u) == u \notin units

\* Faulty variant: EmptyIndexError is not caught and ends the pass.
CatchesEmptyIndexNot == FALSE

\* except EmptyIndexError: continue
CatchesEmptyIndex == TRUE

\* Unit.objects.filter(pk=item["pk"]).exists()
UnitExists(u) == u \in units

\* Faulty variant: the entry is reported as cleaned but stays in the index.
clean_search_unit_kept(ix, u, p) == ix

\* Fulltext.clean_search_unit(pk, lang): the entry of unit u leaves partition p.
clean_search_unit(ix, u, p) == [ix EXCEPT ![p] = ix[p] \ {u}]

\* list(Language.objects.values_list("code", flat=True)) + [None]: the
\* partitions in the order the pass visits them; "source" stands for None.
CleanupOrder == Langs \o <<"source">>

\* cleanup_fulltext starts (the worker takes the message when the schedule
\* sent one).
CleanupBegin ==
    /\ cleanup.pc = "idle"
    /\ cleanup' = [cleanup EXCEPT !.pc = "open", !.langs = CleanupOrder,
                      !.items = <<>>, !.undisturbed = TRUE, !.removed = {},
                      !.skipped = {}]
    /\ beat' = beat \ {"cleanup"}
    /\ finished' = {}
    /\ UNCHANGED <<pipelineVars, scanVars, alertVars, reapVars, cleanVars, auto_update,
                   changes, units, used, index, built, optimize, day>>

\* The pass opens the next partition: a reader over its stored fields as they
\* are now, or EmptyIndexError and on to the next partition.
CleanupOpen ==
    /\ cleanup.pc = "open" /\ cleanup.langs # <<>>
    /\ LET p == Head(cleanup.langs)
           on == [cleanup EXCEPT !.langs = Tail(cleanup.langs),
                                 !.skipped = cleanup.skipped \cup {p}]
       IN IF ReaderFails(p) /\ ~CatchesEmptyIndex
          THEN /\ cleanup' = [cleanup EXCEPT !.pc = "idle", !.langs = <<>>,
                                 !.calm = 0,
                                 !.skipped = cleanup.skipped \cup {p}]
               /\ finished' = {[task |-> "cleanup_fulltext",
                                error |-> "EmptyIndexError",
                                undisturbed |-> cleanup.undisturbed,
                                removed |-> cleanup.removed,
                                skipped |-> cleanup.skipped \cup {p},
                                calm |-> cleanup.calm]}
          ELSE /\ cleanup' = IF ReaderFails(p) \/ index[p] = {}
                             THEN on
                             ELSE [cleanup EXCEPT !.pc = "items",
                                                  !.items = SortedSeq(index[p])]
               /\ finished' = {}
    /\ UNCHANGED <<pipelineVars, scanVars, alertVars, reapVars, cleanVars, auto_update,
                   changes, units, used, index, built, optimize, day, beat>>

\* The pass after the item at the head of its list: the next item, or the
\* next partition after the last one.
NextItem(cl) ==
    IF Tail(cl.items) = <<>>
    THEN [cl EXCEPT !.pc = "open", !.items = <<>>, !.langs = Tail(cl.langs)]
    ELSE [cl EXCEPT !.pc = "items", !.items = Tail(cl.items)]

\* The pass looks up the unit of the next stored item of the open partition:
\* the item is kept when its unit exists and is to be cleaned otherwise.
CleanupItem ==
    /\ cleanup.pc = "items"
    /\ cleanup' = IF UnitExists(Head(cleanup.items))
                  THEN NextItem(cleanup)
                  ELSE [cleanup EXCEPT !.pc = "clean"]
    /\ finished' = {}
    /\ UNCHANGED <<pipelineVars, scanVars, alertVars, reapVars, cleanVars, auto_update,
                   changes, units, used, index, built, optimize, day, beat>>

\* fulltext.clean_search_unit(item["pk"], lang) for the item just looked up.
CleanupClean ==
    /\ cleanup.pc = "clean"
    /\ LET p == Head(cleanup.langs)
           u == Head(cleanup.items) IN
       /\ index' = clean_search_unit(index, u, p)
       /\ cleanup' = [NextItem(cleanup) EXCEPT
                         !.removed = cleanup.removed \cup {<<u, p>>}]
    /\ finished' = {}
    /\ UNCHANGED <<pipelineVars, scanVars, alertVars, reapVars, cleanVars, auto_update,
                   changes, units, used, built, optimize, day, beat>>

\* The pass has visited every partition and returns.
CleanupEnd ==
    /\ cleanup.pc = "open" /\ cleanup.langs = <<>>
    /\ cleanup' = [cleanup EXCEPT !.pc = "idle",
                      !.calm = IF cleanup.undisturbed
                               THEN Min(cleanup.calm + 1, 2) ELSE 0]
    /\ finished' = {[task |-> "cleanup_fulltext",
                     error |-> "none",
                     undisturbed |-> cleanup.undisturbed,
                     removed |-> cleanup.removed,
                     skipped |-> cleanup.skipped,
                     calm |-> cleanup.calm]}
    /\ UNCHANGED <<pipelineVars, scanVars, alertVars, reapVars, cleanVars, auto_update,
                   changes, units, used, index, built, optimize, day, beat>>

\* The source partition first, then one partition per language that has a
\* translation.
OptimizeOrder == <<"source">> \o Langs

\* optimize_fulltext starts.
OptimizeBegin ==
    /\ optimize.pc = "idle"
    /\ optimize' = [pc |-> "run", parts |-> OptimizeOrder]
    /\ beat' = beat \ {"optimize"}
    /\ finished' = {}
    /\ UNCHANGED <<pipelineVars, scanVars, alertVars, reapVars, cleanVars, auto_update,
                   changes, units, used, index, built, cleanup, day>>

\* index.optimize() on the next partition; after the last one the task returns.
OptimizePart ==
    /\ optimize.pc = "run"
    /\ optimize' = IF Tail(optimize.parts) = <<>>
                   THEN [pc |-> "idle", parts |-> <<>>]
                   ELSE [optimize EXCEPT !.parts = Tail(optimize.parts)]
    /\ finished' = {}
    /\ UNCHANGED <<pipelineVars, scanVars, alertVars, reapVars, cleanVars, auto_update,
                   changes, units, used, index, built, cleanup, day, beat>>

\* crontab(hour=2, minute=30, day_of_week=...): the days (0 is Sunday, 6 is
\* Saturday) on which the schedule sends each fulltext task.
CleanupDay == 6
OptimizeDay == 0

\* 02:30 of the next day comes: the schedule sends the tasks due that day.
NextDay ==
    LET d == (day + 1) % 7 IN
    /\ day' = d
    /\ beat' = beat \cup (IF d = CleanupDay THEN {"cleanup"} ELSE {})
                    \cup (IF d = OptimizeDay THEN {"optimize"} ELSE {})
    /\ finished' = {}
    /\ UNCHANGED <<pipelineVars, scanVars, alertVars, reapVars, cleanVars, auto_update,
                   changes, units, used, index, built, cleanup, optimize>>

\* ------------------------------------------------------ stale checkouts
\* Path p is <data_dir("vcs")>/<project slug>/<component slug> of component p.
\* time() - 86400
DaySeconds == 86400

\* The clock moves in steps of half a day, MaxClockSteps times at most.
ClockStep == DaySeconds \div 2
MaxClockSteps == 4

Advance ==
    /\ clock < MaxClockSteps * ClockStep
    /\ clock' = clock + ClockStep
    /\ finished' = {}
    /\ UNCHANGED <<pipelineVars, scanVars, alertVars, indexVars, cleanVars, auto_update,
                   changes, entries, mtime, sweep>>

\* Something writes into the checkout directory p.
Touch(p) ==
    /\ entries[p] = "dir"
    /\ mtime[p] # clock
    /\ mtime' = [mtime EXCEPT ![p] = clock]
    /\ finished' = {}
    /\ UNCHANGED <<pipelineVars, scanVars, alertVars, indexVars, cleanVars, auto_update,
                   changes, clock, entries, sweep>>

\* A directory (a clone) or a plain file appears at path p.
MakeEntry(p, kind) ==
    /\ entries[p] = "none"
    /\ entries' = [entries EXCEPT ![p] = kind]
    /\ mtime' = [mtime EXCEPT ![p] = clock]
    /\ finished' = {}
    /\ UNCHANGED <<pipelineVars, scanVars, alertVars, indexVars, cleanVars, auto_update,
                   changes, clock, sweep>>

\* A component is registered under the slugs of path c.
RegisterComponent(c) ==
    /\ c \notin components
    /\ components' = components \cup {c}
    /\ finished' = {}
    /\ UNCHANGED <<indexVars, reapVars, cleanVars, auto_update, changes,
                   projects, lock, tasks, scanVars, alertVars>>

\* Faulty variant: no path counts as recently modified.
RecentNever(p, yesterday) == FALSE

\* os.path.getmtime(path) > yesterday
Recent(p, yesterday) == mtime[p] > yesterday

\* Component.objects.with_repo().filter(slug=component,
\* project__slug=project).exists()
Matching(p) == p \in with_repo

\* cleanup_stale_repos starts: yesterday is fixed and glob lists the paths.
SweepBegin ==
    /\ sweep.pc = "idle"
    /\ sweep' = [pc |-> "check", yesterday |-> clock - DaySeconds,
                 paths |-> SortedSeq({p \in Paths : entries[p] # "none"}),
                 before |-> entries]
    /\ finished' = {}
    /\ UNCHANGED <<pipelineVars, scanVars, alertVars, indexVars, cleanVars, auto_update,
                   changes, clock, entries, mtime>>

\* The tests on the next path: not a directory, recently modified, or matched
\* by a component with a repository, and the sweep goes on to the next path;
\* otherwise the path is to be removed.
SweepCheck ==
    /\ sweep.pc = "check" /\ sweep.paths # <<>>
    /\ LET p == Head(sweep.paths) IN
       sweep' = IF \/ entries[p] # "dir"
                   \/ Recent(p, sweep.yesterday)
                   \/ Matching(p)
                THEN [sweep EXCEPT !.paths = Tail(sweep.paths)]
                ELSE [sweep EXCEPT !.pc = "remove"]
    /\ finished' = {}
    /\ UNCHANGED <<pipelineVars, scanVars, alertVars, indexVars, cleanVars, auto_update,
                   changes, clock, entries, mtime>>

\* rmtree(path, onerror=remove_readonly)
SweepRemove ==
    /\ sweep.pc = "remove"
    /\ entries' = [entries EXCEPT ![Head(sweep.paths)] = "none"]
    /\ sweep' = [sweep EXCEPT !.pc = "check", !.paths = Tail(sweep.paths)]
    /\ finished' = {}
    /\ UNCHANGED <<pipelineVars, scanVars, alertVars, indexVars, cleanVars, auto_update,
                   changes, clock, mtime>>

\* The sweep has gone through every path and returns.
SweepEnd ==
    /\ sweep.pc = "check" /\ sweep.paths = <<>>
    /\ sweep' = [sweep EXCEPT !.pc = "idle"]
    /\ finished' = {[task |-> "cleanup_stale_repos", before |-> sweep.before,
                     yesterday |-> sweep.yesterday]}
    /\ UNCHANGED <<pipelineVars, scanVars, alertVars, indexVars, cleanVars, auto_update,
                   changes, clock, entries, mtime>>

\* ----------------------------------------------------------- update_remotes
\* Faulty variant: the scheduled update runs in every mode.
AutoUpdateEnabledAlways == TRUE

\* settings.AUTO_UPDATE in ("full", "remote", True, False)
AutoUpdateEnabled == auto_update \in {"full", "remote", "True", "False"}

RECURSIVE UpdateMessages(_)
\* perform_update.delay("Component", component.pk, auto=True) for each
\* component of the sequence.
UpdateMessages(cs) ==
    IF cs = <<>> THEN <<>>
    ELSE <<NewTask("update", "Component", Head(cs), TRUE, "update_remotes")>>
             \o UpdateMessages(Tail(cs))

\* update_remotes(): one scheduled update for each component with a
\* repository, unless the setting disables the scheduled updates.
update_remotes ==
    LET msgs == IF AutoUpdateEnabled THEN UpdateMessages(SortedSeq(with_repo))
                ELSE <<>> IN
    /\ Len(tasks) + Len(msgs) <= MaxTasks
    /\ tasks' = tasks \o msgs
    /\ finished' = {[task |-> "update_remotes", base |-> Len(tasks)]}
    /\ UNCHANGED <<indexVars, reapVars, cleanVars, auto_update, changes,
                   components, projects, lock, scanVars, alertVars>>

\* ---------------------------------------------------------------- removals
MaxRemovals == 3       \* removal messages ever sent in one behaviour

\* The removal task of each kind of object.
RemovalKind(cls) ==
    IF cls = "Project" THEN "project_removal" ELSE "component_removal"

\* <Model>.objects.get(pk=pk) raises the DoesNotExist of its own model.
DoesNotExistOf(cls) ==
    IF cls = "Project" THEN "Project.DoesNotExist" ELSE "Component.DoesNotExist"

\* except Project.DoesNotExist: return -- in component_removal and in
\* project_removal alike.
RemovalCatches(kind) == {"Project.DoesNotExist"}

\* A view sends component_removal(pk, uid) or project_removal(pk, uid) for an
\* object that exists; the message can be sent again before the first one ran.
SubmitRemoval(cls, pk) ==
    /\ Len(tasks) < MaxRemovals
    /\ IF cls = "Project" THEN pk \in projects ELSE pk \in components
    /\ tasks' = Enqueue(tasks, NewTask(RemovalKind(cls), cls, pk, FALSE, "removal"))
    /\ finished' = {}
    /\ UNCHANGED <<indexVars, reapVars, cleanVars, auto_update, changes,
                   components, projects, lock, scanVars, alertVars>>

\* A worker runs removal task i: the object is looked up, the removal is
\* recorded in the history and the object is deleted, a project with its
\* components; the lookup of a missing object raises instead.
RunRemoval(i) ==
    LET t == tasks[i] IN
    /\ t.state = "Queued"
    /\ t.kind \in {"component_removal", "project_removal"}
    /\ IF TargetExists(t)
       THEN /\ changes' = Append(changes, [action |-> t.kind, target |-> t.pk])
            /\ IF t.cls = "Project"
               THEN /\ projects' = projects \ {t.pk}
                    /\ components' = {c \in components : ProjectOf(c) # t.pk}
               ELSE /\ components' = components \ {t.pk}
                    /\ UNCHANGED projects
            /\ tasks' = [tasks EXCEPT ![i] = Return(t)]
       ELSE /\ IF DoesNotExistOf(t.cls) \in RemovalCatches(t.kind)
               THEN tasks' = [tasks EXCEPT ![i] =
                        Return([t EXCEPT !.raised = DoesNotExistOf(t.cls)])]
               ELSE \E t2 \in Raise(t, DoesNotExistOf(t.cls)) :
                        tasks' = [tasks EXCEPT ![i] = t2]
            /\ UNCHANGED <<components, projects, changes>>
    /\ finished' = {}
    /\ UNCHANGED <<indexVars, reapVars, cleanVars, auto_update, lock, scanVars, alertVars>>

\* ------------------------------------------------------ cleanup_suggestions
\* The orders in which a queryset without ordering can yield the rows S.
Orders(S) ==
    {f \in [1..Cardinality(S) -> S] : \A i, j \in DOMAIN f : f[i] = f[j] => i = j}

\* The Suggestion rows that exist, and the fields of row s.
LiveSuggestions == {s \in SuggIds : suggestions[s] # {}}
Row(s) == CHOOSE r \in suggestions[s] : TRUE

\* What a case-insensitive collation compares.
Fold(text) == IF text = "A" THEN "a" ELSE text

\* Suggestion.objects.filter(unit=..., target=...).exclude(id=...) on a
\* database that compares strings without regard to case.
SqlDuplicates(s, row) ==
    {o \in LiveSuggestions \ {s} :
        Row(o).unit = row.unit /\ Fold(Row(o).target) = Fold(row.target)}

\* Faulty variant: the result of the SQL filter is trusted.
SameTargetSql(a, b) == TRUE

\* other.target == suggestion.target
SameTarget(a, b) == a = b

\* suggestion.unit.target == suggestion.target and suggestion.unit.translated
SameAsTranslation(row) ==
    /\ unit_text[row.unit].target = row.target
    /\ unit_text[row.unit].translated

\* The sweep deletes suggestion s, read as row.
ToDelete(s, row) ==
    \/ SameAsTranslation(row)
    \/ \E o \in SqlDuplicates(s, row) : SameTarget(Row(o).target, row.target)

\* suggestion.delete_log(anonymous_user, change=ACTION_SUGGESTION_CLEANUP)
\* writes a Change row and deletes the suggestion.
CleanupChange(s) == [action |-> "suggestion_cleanup", target |-> s]

\* Faulty variant: no transaction, every write made before the failure stays.
RollbackNone(written, item_start) == written

\* with transaction.atomic() around the work on one item: a failure leaves
\* the database as it was when the work on the item began.
Rollback(written, item_start) == item_start

\* Where the work on one item can fail: nowhere, in a query before any write,
\* or in the deletion after some of the item's writes.
FailPoints == {"none", "query", "delete"}

\* cleanup_suggestions starts: the iterator will yield the rows that exist
\* now, as they are now, in some order.
SuggBegin(order) ==
    /\ suggsweep.pc = "idle"
    /\ suggsweep' = [pc |-> "run", todo |-> order, before |-> suggestions,
                     deleted |-> {}]
    /\ finished' = {}
    /\ UNCHANGED <<pipelineVars, scanVars, alertVars, indexVars, reapVars,
                   sourceVars, auto_update, changes, suggestions, unit_text>>

\* The work on the next suggestion of the iterator, inside its transaction;
\* a failure ends the sweep with the exception.
SuggItem(fail) ==
    /\ suggsweep.pc = "run" /\ suggsweep.todo # <<>>
    /\ LET s == Head(suggsweep.todo)
           row == CHOOSE r \in suggsweep.before[s] : TRUE
           del == ToDelete(s, row)
           logged == Append(changes, CleanupChange(s))
           gone == [suggestions EXCEPT ![s] = {}]
       IN
       /\ fail = "delete" => del
       /\ IF fail = "none"
          THEN /\ suggestions' = IF del THEN gone ELSE suggestions
               /\ changes' = IF del THEN logged ELSE changes
               /\ suggsweep' = [suggsweep EXCEPT !.todo = Tail(suggsweep.todo),
                                   !.deleted = IF del THEN suggsweep.deleted \cup {s}
                                               ELSE suggsweep.deleted]
               /\ finished' = {}
          ELSE /\ LET written == IF fail = "delete"
                                 THEN <<suggestions, logged>>
                                 ELSE <<suggestions, changes>>
                      db == Rollback(written, <<suggestions, changes>>)
                  IN suggestions' = db[1] /\ changes' = db[2]
               /\ suggsweep' = [suggsweep EXCEPT !.pc = "idle", !.todo = <<>>]
               /\ finished' = {[task |-> "cleanup_suggestions", error |-> "Error",
                                before |-> suggsweep.before,
                                deleted |-> suggsweep.deleted,
                                failed |-> {s}]}
    /\ UNCHANGED <<pipelineVars, scanVars, alertVars, indexVars, reapVars,
                   sourceVars, auto_update, unit_text>>

\* The iterator is exhausted and the task returns.
SuggEnd ==
    /\ suggsweep.pc = "run" /\ suggsweep.todo = <<>>
    /\ suggsweep' = [suggsweep EXCEPT !.pc = "idle"]
    /\ finished' = {[task |-> "cleanup_suggestions", error |-> "none",
                     before |-> suggsweep.before,
                     deleted |-> suggsweep.deleted,
                     failed |-> {}]}
    /\ UNCHANGED <<pipelineVars, scanVars, alertVars, indexVars, reapVars,
                   sourceVars, auto_update, changes, suggestions, unit_text>>

\* ---------------------------------------------------------- cleanup_sources
\* Unit rows of the source translation of component c whose id_hash no unit
\* of another translation of the component has.
StaleSources(c) == source_units[c] \ other_hashes[c]

\* cleanup_project(pk) starts: a missing project ends it at once, otherwise
\* cleanup_sources goes through the project's components without a template.
SourcesBegin(p) ==
    /\ srcsweep.pc = "idle"
    /\ IF p \in projects
       THEN /\ srcsweep' = [pc |-> "run",
                            todo |-> SortedSeq({c \in components :
                                ProjectOf(c) = p /\ c \notin monolingual}),
                            before |-> source_units, cleaned |-> {}]
            /\ finished' = {}
       ELSE /\ UNCHANGED srcsweep
            /\ finished' = {[task |-> "cleanup_sources", error |-> "none",
                             before |-> source_units, cleaned |-> {},
                             failed |-> {}]}
    /\ UNCHANGED <<pipelineVars, scanVars, alertVars, indexVars, reapVars,
                   suggVars, auto_update, changes, source_units, other_hashes,
                   monolingual>>

\* The work on the next component, inside its transaction: the stale source
\* units are deleted; a failure, before the deletion or after part of it,
\* ends the sweep with the exception.
SourcesItem(fail, part) ==
    /\ srcsweep.pc = "run" /\ srcsweep.todo # <<>>
    /\ LET c == Head(srcsweep.todo) IN
       /\ part \subseteq StaleSources(c)
       /\ fail = "none" => part = StaleSources(c)
       /\ fail = "query" => part = {}
       /\ fail = "delete" => part # StaleSources(c)
       /\ LET written == [source_units EXCEPT ![c] = source_units[c] \ part] IN
          IF fail = "none"
          THEN /\ source_units' = written
               /\ srcsweep' = [srcsweep EXCEPT !.todo = Tail(srcsweep.todo),
                                  !.cleaned = srcsweep.cleaned \cup {c}]
               /\ finished' = {}
          ELSE /\ source_units' = Rollback(written, source_units)
               /\ srcsweep' = [srcsweep EXCEPT !.pc = "idle", !.todo = <<>>]
               /\ finished' = {[task |-> "cleanup_sources", error |-> "Error",
                                before |-> srcsweep.before,
                                cleaned |-> srcsweep.cleaned,
                                failed |-> {c}]}
    /\ UNCHANGED <<pipelineVars, scanVars, alertVars, indexVars, reapVars,
                   suggVars, auto_update, changes, other_hashes, monolingual>>

\* Every component has been handled and the task returns.
SourcesEnd ==
    /\ srcsweep.pc = "run" /\ srcsweep.todo = <<>>
    /\ srcsweep' = [srcsweep EXCEPT !.pc = "idle"]
    /\ finished' = {[task |-> "cleanup_sources", error |-> "none",
                     before |-> srcsweep.before,
                     cleaned |-> srcsweep.cleaned, failed |-> {}]}
    /\ UNCHANGED <<pipelineVars, scanVars, alertVars, indexVars, reapVars,
                   suggVars, auto_update, changes, source_units, other_hashes,
                   monolingual>>

InitPipeline ==
    /\ components = Comps
    /\ projects = Projects
    /\ lock = [c \in Comps |-> {}]
    /\ tasks = <<>>

InitScanIdle ==
    /\ now = 0
    /\ last_changed = [c \in Comps |-> {}]
    /\ pending = [c \in Comps |-> FALSE]
    /\ commit_pending_age = [c \in Comps |-> 1]

InitAlertsIdle ==
    /\ linked = {}
    /\ missing = [c \in Comps |-> 0]
    /\ outgoing = [c \in Comps |-> 0]
    /\ alerts = [c \in Comps |-> [n \in AlertNames |-> 0]]

\* No fulltext index yet, no pass running.
InitIndexIdle ==
    /\ units = {}
    /\ used = {}
    /\ index = [p \in Parts |-> {}]
    /\ built = [p \in Parts |-> FALSE]
    /\ cleanup = [pc |-> "idle", langs |-> <<>>, items |-> <<>>,
                  undisturbed |-> TRUE, removed |-> {}, calm |-> 0,
                  skipped |-> {}]
    /\ optimize = [pc |-> "idle", parts |-> <<>>]
    /\ day = 0
    /\ beat = {}

\* Every component has its checkout, freshly made; no sweep running.
InitReapIdle ==
    /\ clock = 0
    /\ entries = [p \in Paths |-> "dir"]
    /\ mtime = [p \in Paths |-> 0]
    /\ sweep = [pc |-> "idle", yesterday |-> 0, paths |-> <<>>,
                before |-> [p \in Paths |-> "none"]]

InitSettings ==
    /\ auto_update = "remote"
    /\ changes = <<>>

\* No suggestion and no sweep of suggestions.
InitSuggIdle ==
    /\ suggestions = [s \in SuggIds |-> {}]
    /\ unit_text = [u \in UnitIds |-> [target |-> "a", translated |-> FALSE]]
    /\ suggsweep = [pc |-> "idle", todo |-> <<>>,
                    before |-> [s \in SuggIds |-> {}],
                    deleted |-> {}]

\* No source unit and no sweep of source units.
InitSourcesIdle ==
    /\ source_units = [c \in Comps |-> {}]
    /\ other_hashes = [c \in Comps |-> {}]
    /\ monolingual = {}
    /\ srcsweep = [pc |-> "idle", todo |-> <<>>,
                   before |-> [c \in Comps |-> {}], cleaned |-> {}]

InitCleanIdle == InitSuggIdle /\ InitSourcesIdle

InitRest == InitIndexIdle /\ InitReapIdle /\ InitSettings /\ InitCleanIdle

Init ==
    InitPipeline /\ InitScanIdle /\ InitAlertsIdle /\ finished = {} /\ InitRest

SubmitAny ==
    \E kind \in Kinds, cls \in {"Component", "Project"}, pk \in Comps,
       auto \in BOOLEAN : Submit(kind, cls, pk, auto)

StartAny == \E i \in DOMAIN tasks : Start(i)
AcquireAny == \E i \in DOMAIN tasks : Acquire(i)
RunStageAny == \E i \in DOMAIN tasks : RunStage(i)
RequeueAny == \E i \in DOMAIN tasks : Requeue(i)
DeleteComponentAny == \E c \in Comps : DeleteComponent(c)
DeleteProjectAny == \E p \in Projects : DeleteProject(p)

Next ==
    \/ SubmitAny
    \/ StartAny
    \/ AcquireAny
    \/ RunStageAny
    \/ RequeueAny
    \/ DeleteComponentAny
    \/ DeleteProjectAny

Spec == Init /\ [][Next]_vars

\* The scan on its own: components with or without a recorded change, with or
\* without changes waiting to be committed (a pending change is always a
\* recorded one; a committed one leaves needs_commit() false) and thresholds
\* of 1 or 2 hours. The messages the scan enqueues stay queued: running them
\* is the pipeline's part (Spec).
ScanInit ==
    /\ InitPipeline /\ InitAlertsIdle /\ finished = {} /\ InitRest
    /\ now = 0
    /\ last_changed \in [Comps -> {{}, {0}}]
    /\ pending \in [Comps -> BOOLEAN]
    /\ \A c \in Comps : pending[c] => last_changed[c] # {}
    /\ commit_pending_age \in [Comps -> {1, 2}]

ScanNext ==
    \/ Tick
    \/ \E c \in Comps : Edit(c)
    \/ \E hours \in HoursArgs, pks \in PksArgs : commit_pending(hours, pks)

ScanSpec == ScanInit /\ [][ScanNext]_vars

\* The alert sweep on its own: any of the components may be a link.
AlertsInit ==
    /\ InitPipeline /\ InitScanIdle /\ finished = {} /\ InitRest
    /\ linked \in SUBSET Comps
    /\ missing = [c \in Comps |-> 0]
    /\ outgoing = [c \in Comps |-> 0]
    /\ alerts = [c \in Comps |-> [n \in AlertNames |-> 0]]

AlertsNext ==
    \/ \E c \in Comps, m \in CounterValues, o \in CounterValues : SetCounters(c, m, o)
    \/ \E threshold \in Thresholds : repository_alerts(threshold)

AlertsSpec == AlertsInit /\ [][AlertsNext]_vars

\* The fulltext index and its cleanup pass, with units created, indexed and
\* deleted at any moment.
IndexInit == Init

IndexNext ==
    \/ \E u \in UnitIds : CreateUnit(u)
    \/ \E u \in UnitIds, p \in Parts : IndexUnit(u, p)
    \/ \E u \in UnitIds, purge \in BOOLEAN : DeleteUnit(u, purge)
    \/ CleanupBegin
    \/ CleanupOpen
    \/ CleanupItem
    \/ CleanupClean
    \/ CleanupEnd

IndexSpec == IndexInit /\ [][IndexNext]_vars

\* The weekly schedule of the two fulltext tasks and the workers that run
\* them, over an index that holds live and stale entries. A pass takes as
\* many days as it takes, and a worker takes a message when it gets to it.
MaintInit ==
    /\ InitPipeline /\ InitScanIdle /\ InitAlertsIdle /\ finished = {}
    /\ InitReapIdle /\ InitSettings /\ InitCleanIdle
    /\ units = {1}
    /\ used = {1, 2}
    /\ index = [p \in Parts |-> IF p = "de" THEN {} ELSE {1, 2}]
    /\ built = [p \in Parts |-> p # "de"]
    /\ cleanup = [pc |-> "idle", langs |-> <<>>, items |-> <<>>,
                  undisturbed |-> TRUE, removed |-> {}, calm |-> 0,
                  skipped |-> {}]
    /\ optimize = [pc |-> "idle", parts |-> <<>>]
    /\ day = 0
    /\ beat = {}

ScheduledCleanup == "cleanup" \in beat /\ CleanupBegin

ScheduledOptimize == "optimize" \in beat /\ OptimizeBegin

MaintNext ==
    \/ NextDay
    \/ ScheduledCleanup
    \/ CleanupOpen
    \/ CleanupItem
    \/ CleanupClean
    \/ CleanupEnd
    \/ ScheduledOptimize
    \/ OptimizePart

MaintSpec == MaintInit /\ [][MaintNext]_vars

\* The sweep of stale checkouts with nothing else happening while it runs:
\* between sweeps time passes, directories and files appear and are written
\* to, and components are registered and deleted.
ReapInit ==
    /\ InitPipeline /\ InitScanIdle /\ finished = {}
    /\ InitIndexIdle /\ InitReapIdle /\ InitSettings /\ InitCleanIdle
    /\ linked \in SUBSET Comps
    /\ missing = [c \in Comps |-> 0]
    /\ outgoing = [c \in Comps |-> 0]
    /\ alerts = [c \in Comps |-> [n \in AlertNames |-> 0]]

SweepIdle == sweep.pc = "idle"

TouchAny == \E p \in Paths : Touch(p)
MakeEntryAny == \E p \in Paths, kind \in {"dir", "file"} : MakeEntry(p, kind)
RegisterComponentAny == \E c \in Comps : RegisterComponent(c)

ReapNext ==
    \/ SweepIdle /\ Advance
    \/ SweepIdle /\ TouchAny
    \/ SweepIdle /\ MakeEntryAny
    \/ SweepIdle /\ RegisterComponentAny
    \/ SweepIdle /\ DeleteComponentAny
    \/ SweepBegin
    \/ SweepCheck
    \/ SweepRemove
    \/ SweepEnd

ReapSpec == ReapInit /\ [][ReapNext]_vars

\* Updates only: the scheduled update_remotes and manual perform_update
\* submissions under each value of the setting, with linked components.
UpdateInit ==
    /\ InitPipeline /\ InitScanIdle /\ finished = {}
    /\ InitIndexIdle /\ InitReapIdle /\ InitCleanIdle
    /\ auto_update \in AutoUpdateModes
    /\ changes = <<>>
    /\ linked \in SUBSET Comps
    /\ missing = [c \in Comps |-> 0]
    /\ outgoing = [c \in Comps |-> 0]
    /\ alerts = [c \in Comps |-> [n \in AlertNames |-> 0]]

SubmitUpdate ==
    \E cls \in {"Component", "Project"}, pk \in Comps :
        Submit("update", cls, pk, FALSE)

UpdateNext ==
    \/ update_remotes
    \/ SubmitUpdate
    \/ StartAny
    \/ AcquireAny
    \/ RunStageAny
    \/ RequeueAny

UpdateSpec == UpdateInit /\ [][UpdateNext]_vars

\* Removal messages for components and projects, sent once or several times,
\* and the workers running them.
RemovalInit == Init

SubmitRemovalAny ==
    \E cls \in {"Component", "Project"}, pk \in Comps : SubmitRemoval(cls, pk)

RunRemovalAny == \E i \in DOMAIN tasks : RunRemoval(i)

RemovalNext ==
    \/ SubmitRemovalAny
    \/ RunRemovalAny

RemovalSpec == RemovalInit /\ [][RemovalNext]_vars

\* The sweep of suggestions over any set of suggestions on two units, with
\* nobody else writing suggestions or units.
SuggRows == [unit : UnitIds, target : Texts]

SuggInit ==
    /\ InitPipeline /\ InitScanIdle /\ InitAlertsIdle /\ finished = {}
    /\ InitIndexIdle /\ InitReapIdle /\ InitSettings /\ InitSourcesIdle
    /\ suggestions \in [SuggIds -> {{}} \cup {{r} : r \in SuggRows}]
    /\ unit_text \in [UnitIds -> [target : Texts, translated : BOOLEAN]]
    /\ suggsweep = [pc |-> "idle", todo |-> <<>>,
                    before |-> [s \in SuggIds |-> {}],
                    deleted |-> {}]

SuggBeginAny == \E order \in Orders(LiveSuggestions) : SuggBegin(order)
SuggItemAny == \E fail \in FailPoints : SuggItem(fail)

SuggNext ==
    \/ SuggBeginAny
    \/ SuggItemAny
    \/ SuggEnd

SuggSpec == SuggInit /\ [][SuggNext]_vars

\* The two sweeps that delete inside one transaction for each item, with
\* failures at any item: suggestions on one translated unit, and the source
\* units of the two components of the project.
TxInit ==
    /\ InitPipeline /\ InitScanIdle /\ InitAlertsIdle /\ finished = {}
    /\ InitIndexIdle /\ InitReapIdle /\ InitSettings
    /\ suggestions \in [SuggIds -> {{}} \cup {{[unit |-> 1, target |-> t]} : t \in Texts}]
    /\ unit_text = [u \in UnitIds |-> [target |-> "a", translated |-> TRUE]]
    /\ suggsweep = [pc |-> "idle", todo |-> <<>>,
                    before |-> [s \in SuggIds |-> {}],
                    deleted |-> {}]
    /\ source_units \in [Comps -> SUBSET Hashes]
    /\ other_hashes \in [Comps -> {{}, {1}}]
    /\ monolingual \in {{}, {2}}
    /\ srcsweep = [pc |-> "idle", todo |-> <<>>,
                   before |-> [c \in Comps |-> {}], cleaned |-> {}]

SourcesBeginAny == \E p \in Projects : SourcesBegin(p)

SourcesItemAny ==
    \E fail \in FailPoints, part \in SUBSET Hashes : SourcesItem(fail, part)

TxNext ==
    \/ SuggBeginAny
    \/ SuggItemAny
    \/ SuggEnd
    \/ SourcesBeginAny
    \/ SourcesItemAny
    \/ SourcesEnd

TxSpec == TxInit /\ [][TxNext]_vars

\* The same sweep with everything else free to happen between any two of its
\* steps.
RaceInit == ReapInit

RaceNext ==
    \/ Advance
    \/ TouchAny
    \/ MakeEntryAny
    \/ RegisterComponentAny
    \/ DeleteComponentAny
    \/ SweepBegin
    \/ SweepCheck
    \/ SweepRemove
    \/ SweepEnd

RaceSpec == RaceInit /\ [][RaceNext]_vars

\* The pipeline when nothing is deleted and no stage raises: what is left is
\* lock contention. Workers are scheduled fairly: a queued task is started, a
\* task waiting for a lock gets its turn, a countdown passes, and the holder of
\* a lock finishes its stage and releases it.
LiveNext ==
    \/ SubmitAny
    \/ StartAny
    \/ AcquireAny
    \/ \E i \in DOMAIN tasks : RunStageWith(i, "ok")
    \/ RequeueAny

LiveFairness ==
    \A i \in 1..MaxTasks :
        /\ WF_vars(i \in DOMAIN tasks /\ Start(i))
        /\ WF_vars(i \in DOMAIN tasks /\ Acquire(i))
        /\ WF_vars(i \in DOMAIN tasks /\ RunStageWith(i, "ok"))
        /\ WF_vars(i \in DOMAIN tasks /\ Requeue(i))

LiveSpec == Init /\ [][LiveNext]_vars /\ LiveFairness

\* The messages of tasks that have ended leave the queue.
Forget ==
    /\ tasks # <<>>
    /\ \A i \in DOMAIN tasks : tasks[i].state \in {"Done", "Failed"}
    /\ tasks' = <<>>
    /\ finished' = {}
    /\ UNCHANGED <<indexVars, reapVars, cleanVars, auto_update, changes,
                   components, projects, lock, scanVars, alertVars>>

\* add_periodic_task(3600, commit_pending.s()): the scan with no arguments.
HourlyScan == commit_pending({}, {})

\* The hourly scan together with the pipeline: components with changes waiting
\* since hour 0, and at most one other pipeline task, a push of component 1
\* or an update of the whole project, competing for the repository locks.
\* Nothing is deleted, nothing is edited and no stage raises.
CommitLiveInit ==
    /\ components = Comps
    /\ projects = Projects
    /\ lock = [c \in Comps |-> {}]
    /\ tasks \in {<<>>,
                  <<NewTask("push", "Component", 1, FALSE, "manual")>>,
                  <<NewTask("update", "Project", 1, FALSE, "manual")>>}
    /\ now = 0
    /\ last_changed = [c \in Comps |-> {0}]
    /\ pending \in [Comps -> BOOLEAN]
    /\ commit_pending_age = [c \in Comps |-> 1]
    /\ InitAlertsIdle /\ finished = {} /\ InitRest

CommitLiveNext ==
    \/ Tick
    \/ HourlyScan
    \/ StartAny
    \/ AcquireAny
    \/ \E i \in DOMAIN tasks : RunStageWith(i, "ok")
    \/ RequeueAny
    \/ Forget

\* A scan comes every hour for ever, and workers are scheduled fairly as in
\* LiveFairness; the holder of a lock finishes its stage and releases it.
CommitLiveFairness ==
    /\ WF_vars(HourlyScan)
    /\ WF_vars(Forget)
    /\ \A i \in 1..MaxScanTasks :
        /\ WF_vars(i \in DOMAIN tasks /\ Start(i))
        /\ WF_vars(i \in DOMAIN tasks /\ Acquire(i))
        /\ WF_vars(i \in DOMAIN tasks /\ RunStageWith(i, "ok"))
        /\ WF_vars(i \in DOMAIN tasks /\ Requeue(i))

CommitLiveSpec == CommitLiveInit /\ [][CommitLiveNext]_vars /\ CommitLiveFairness

\* ------------------------------------------------------------------ claims
Task(i) == tasks[i]
TaskIds == DOMAIN tasks

\* C1: at most one task is inside a repository's lock, and at most one task is
\* executing a pipeline stage on a repository, at any instant.
C1_LockHolderUnique ==
    /\ \A c \in Comps : Cardinality(lock[c]) <= 1
    /\ \A i, j \in TaskIds :
         ( /\ Task(i).pc = "stage" /\ Task(j).pc = "stage"
           /\ Head(Task(i).todo) = Head(Task(j).todo) ) => i = j

\* C1 witness: one task runs its stage on a repository while another task for
\* the same repository has been turned away by the lock.
C1_Witness ==
    \E i, j \in TaskIds :
        /\ i # j
        /\ Task(i).pc = "stage" /\ Head(Task(i).todo) = 1 /\ lock[1] = {i}
        /\ Task(j).cls = "Component" /\ Task(j).pk = 1
        /\ Task(j).state = "Retrying" /\ Task(j).error = "Timeout"

\* C2 (as claimed): a lock-acquisition Timeout never moves a task to Failed,
\* whatever its attempt count.
C2_TimeoutNeverFails ==
    \A i \in TaskIds : Task(i).state = "Failed" => Task(i).error # "Timeout"

\* C3 (as claimed): the delay before the k-th retry is exactly
\* min(600 * 2^(k-1), 3600) seconds.
C3_ExactBackoff ==
    \A i \in TaskIds :
        Task(i).state = "Retrying" =>
            Task(i).countdown = Min(600 * Pow2(Task(i).retries - 1), 3600)

\* C3 (amended): the delay before the k-th retry is between 0 and
\* min(600 * 2^(k-1), 3600) seconds, so it never exceeds 3600 seconds.
C3_BackoffCeiling ==
    \A i \in TaskIds :
        Task(i).state = "Retrying" =>
            /\ Task(i).retries >= 1
            /\ Task(i).countdown >= 0
            /\ Task(i).countdown <= Min(600 * Pow2(Task(i).retries - 1), 3600)
            /\ Task(i).countdown <= 3600

\* C3 witness: a task that timed out three times waits for its third retry
\* with the full delay of 2400 seconds.
C3_Witness ==
    \E i \in TaskIds :
        /\ Task(i).state = "Retrying" /\ Task(i).error = "Timeout"
        /\ Task(i).retries = 3 /\ Task(i).countdown = 2400

\* C4 (as claimed): when nothing is deleted, no stage raises, every lock holder
\* releases and workers are fair, every submitted task eventually reaches Done.
C4_EventuallyDone ==
    \A i \in 1..MaxTasks :
        (i \in TaskIds) ~> (i \in TaskIds /\ Task(i).state = "Done")

\* C5 (as claimed): a task whose target row is gone when it runs ends as a
\* silent no-op: Done, no error, no retry, no other state changed.
C5_MissingTargetSilent ==
    [][\A i \in TaskIds :
          (Task(i).state = "Queued" /\ ~TargetExists(Task(i)) /\ tasks'[i] # tasks[i])
          => /\ tasks'[i].state = "Done"
             /\ tasks'[i].error = "none"
             /\ tasks'[i].retries = Task(i).retries
             /\ UNCHANGED <<components, projects, lock, scanVars, alertVars>>]_vars

\* An exception other than the lock Timeout left the task body.
NonTransient(t) == t.error \notin {"none", "Timeout"}

\* C6: a task that failed with anything but a lock Timeout is Failed, and from
\* then on is never queued, retried or run again.
C6_NonTransientFails ==
    [][\A i \in DOMAIN tasks' :
          NonTransient(tasks'[i]) =>
              /\ tasks'[i].state = "Failed"
              /\ (i \in TaskIds /\ NonTransient(Task(i))) => tasks'[i] = Task(i)]_vars

\* C6 witness: a task that was never retried is Failed with a plain error, and
\* a load task is Failed with the parse failure.
C6_Witness ==
    \E i, j \in TaskIds :
        /\ Task(i).state = "Failed" /\ Task(i).error = "Error" /\ Task(i).retries = 0
        /\ Task(j).state = "Failed" /\ Task(j).error = "FileParseError"
        /\ Task(j).kind = "load"

\* C7: a FileParseError raised while perform_update runs leaves the task Done,
\* with no error and no retry scheduled, and the task never changes again.
C7_ParseErrorSwallowed ==
    [][\A i \in DOMAIN tasks' :
          (tasks'[i].kind = "update" /\ tasks'[i].raised = "FileParseError") =>
              /\ tasks'[i].state = "Done"
              /\ tasks'[i].error = "none"
              /\ tasks'[i].countdown = 0
              /\ (i \in TaskIds /\ Task(i).raised = "FileParseError")
                    => tasks'[i] = Task(i)]_vars

\* C7 witness: a perform_update ended Done after its stage raised FileParseError.
C7_Witness ==
    \E i \in TaskIds :
        /\ Task(i).kind = "update" /\ Task(i).raised = "FileParseError"
        /\ Task(i).state = "Done"

\* The messages enqueued since the queue had length base.
NewIds(base) == (base + 1)..Len(tasks)

\* The commit messages for component c among those enqueued since base.
CommitIdsFor(c, base) ==
    {k \in NewIds(base) : Task(k).kind = "commit" /\ Task(k).pk = c}

\* The scan looked at component c: it exists and, when pks is given, one of
\* the translations named belongs to it.
Scanned(c, pks) ==
    /\ c \in components
    /\ pks = {} \/ \E S \in pks : \E t \in S : ComponentOf(t) = c

\* The threshold in hours: the caller's value when given (0 included), else
\* the component's own commit_pending_age.
ThresholdHours(c, hours) ==
    IF hours = {} THEN commit_pending_age[c] ELSE CHOOSE h \in hours : TRUE

\* Component c has a recorded last change at least the threshold old and has
\* changes to commit.
Eligible(c, hours) ==
    /\ \E lc \in last_changed[c] : now - lc >= ThresholdHours(c, hours)
    /\ pending[c]

ScanDone(r) == r.task = "commit_pending"

\* C8: right after a commit_pending scan, a commit task was enqueued for a
\* scanned repository iff it has a last change, the change is at least the
\* threshold old, and needs_commit() holds.
C8_EnqueuedIffEligible ==
    \A r \in finished :
        ScanDone(r) =>
            \A c \in Comps :
                Scanned(c, r.pks) =>
                    (CommitIdsFor(c, r.base) # {} <=> Eligible(c, r.hours))

\* C8 witness: a scan with the uniform threshold 0 has enqueued a commit for
\* component 1, changed this very hour, and none for component 2, whose change
\* is two hours old but already committed.
C8_Witness ==
    \E r \in finished :
        /\ ScanDone(r) /\ r.hours = {0} /\ r.pks = {}
        /\ last_changed[1] = {now} /\ pending[1] /\ CommitIdsFor(1, r.base) # {}
        /\ last_changed[2] = {0} /\ now >= 2 /\ ~pending[2]
        /\ CommitIdsFor(2, r.base) = {}

\* C9 (as claimed): right after a scan every eligible scanned repository has
\* exactly one new commit task, tagged "periodic-commit".
C9_OnePeriodicCommit ==
    \A r \in finished :
        ScanDone(r) =>
            \A c \in Comps :
                (Scanned(c, r.pks) /\ Eligible(c, r.hours)) =>
                    /\ Cardinality(CommitIdsFor(c, r.base)) = 1
                    /\ \A k \in CommitIdsFor(c, r.base) :
                           Task(k).args = "periodic-commit"

\* C9 (amended): a scan enqueues exactly one commit task for every eligible
\* scanned repository, tagged "commit_pending" and left queued; the scan takes
\* no lock, commits nothing and leaves the earlier messages alone.
C9_OneQueuedCommit ==
    [][\A r \in finished' :
          ScanDone(r) =>
              /\ r.base = Len(tasks)
              /\ SubSeq(tasks', 1, Len(tasks)) = tasks
              /\ lock' = lock /\ pending' = pending /\ last_changed' = last_changed
              /\ \A c \in Comps :
                    (Scanned(c, r.pks) /\ Eligible(c, r.hours)) =>
                        /\ Cardinality({k \in (r.base + 1)..Len(tasks') :
                               tasks'[k].kind = "commit" /\ tasks'[k].pk = c}) = 1
                        /\ \A k \in (r.base + 1)..Len(tasks') :
                               /\ tasks'[k].args = "commit_pending"
                               /\ tasks'[k].state = "Queued"
                               /\ tasks'[k].kind = "commit"]_vars

\* C9 witness: a scan restricted to the two translations of component 1 has
\* enqueued one commit task for it.
C9_Witness ==
    \E r \in finished :
        /\ ScanDone(r) /\ r.pks = {{1, 2}}
        /\ Cardinality(CommitIdsFor(1, r.base)) = 1
        /\ \A k \in CommitIdsFor(1, r.base) : Task(k).args = "commit_pending"

Active(c, name) == alerts[c][name] > 0

SweepDone(r) == r.task = "repository_alerts"

\* C10: right after repository_alerts(threshold), for every component with its
\* own repository, RepositoryOutdated is active iff count_missing > threshold
\* and RepositoryChanges is active iff count_outgoing > threshold.
C10_AlertsFollowCounters ==
    \A r \in finished :
        SweepDone(r) =>
            \A c \in components \ linked :
                /\ Active(c, "RepositoryOutdated") <=> missing[c] > r.threshold
                /\ Active(c, "RepositoryChanges") <=> outgoing[c] > r.threshold

\* C10 witness: after a sweep with threshold 10, component 1 (missing 11,
\* outgoing 10) has only RepositoryOutdated and component 2 (missing 9,
\* outgoing 11) has only RepositoryChanges.
C10_Witness ==
    \E r \in finished :
        /\ SweepDone(r) /\ r.threshold = 10 /\ linked = {}
        /\ missing[1] = 11 /\ outgoing[1] = 10
        /\ Active(1, "RepositoryOutdated") /\ ~Active(1, "RepositoryChanges")
        /\ missing[2] = 9 /\ outgoing[2] = 11
        /\ ~Active(2, "RepositoryOutdated") /\ Active(2, "RepositoryChanges")

\* C11: a repository_alerts sweep that directly follows the same sweep, the
\* counters unchanged, leaves every alert as it was, and no (name, repository)
\* pair ever holds more than one alert row.
C11_SweepIdempotent ==
    [][/\ \A r \in finished' :
             (SweepDone(r) /\ r.repeat) => alerts' = alerts
       /\ \A c \in Comps, n \in AlertNames : alerts'[c][n] <= 1]_vars

\* C11 witness: the sweep has run twice in a row with component 1 eleven
\* commits behind, and RepositoryOutdated is held once.
C11_Witness ==
    \E r \in finished :
        /\ SweepDone(r) /\ r.repeat /\ r.threshold = 10
        /\ 1 \notin linked /\ missing[1] = 11
        /\ alerts[1]["RepositoryOutdated"] = 1
        /\ alerts[1]["RepositoryChanges"] = 0

\* A cleanup_fulltext pass has just returned.
CleanupDone(r) == r.task = "cleanup_fulltext"

\* C12: after a cleanup_fulltext pass during which no unit and no index entry
\* was changed by anyone else, every entry left in every partition (each
\* language and the source partition) references a unit that exists, and no
\* entry the pass removed belongs to a unit that exists.
C12_OnlyStaleRemoved ==
    \A r \in finished :
        (CleanupDone(r) /\ r.undisturbed) =>
            /\ \A p \in Parts : \A u \in index[p] : u \in units
            /\ \A e \in r.removed : e[1] \notin units

\* An undisturbed pass removed the stale entry of unit 2 from a language
\* partition and from the source partition and kept the entries of unit 1.
C12_Witness ==
    \E r \in finished :
        /\ CleanupDone(r) /\ r.undisturbed
        /\ {<<2, "cs">>, <<2, "source">>} \subseteq r.removed
        /\ units = {1}
        /\ 1 \in index["cs"] /\ 1 \in index["source"]

\* C13: a cleanup_fulltext pass that directly follows an undisturbed pass,
\* with no unit or index change in between or during it, removes no entry.
C13_SecondPassRemovesNothing ==
    \A r \in finished :
        (CleanupDone(r) /\ r.undisturbed /\ r.calm >= 1) => r.removed = {}

\* A second pass in a row has gone through a partition that holds entries.
C13_Witness ==
    \E r \in finished :
        /\ CleanupDone(r) /\ r.undisturbed /\ r.calm >= 1
        /\ r.removed = {}
        /\ index["cs"] # {} /\ index["source"] # {}
        /\ used \ units # {}

\* C14: the index cleanup pass and the index optimize pass are never running
\* at the same time, however long either pass takes and whenever the weekly
\* schedule fires.
C14_NeverTogether == ~(cleanup.pc # "idle" /\ optimize.pc # "idle")

\* A cleanup_stale_repos sweep has just returned.
ReapDone(r) == r.task = "cleanup_stale_repos"

\* C15 as stated: a checkout directory is removed by a sweep if and only if
\* it was last modified more than 24 hours before the sweep and no live
\* repository matches its slugs.
C15_RemovedIffOlder ==
    \A r \in finished : ReapDone(r) =>
        \A p \in Paths : r.before[p] = "dir" =>
            (entries[p] = "none" <=>
                (clock - mtime[p] > DaySeconds /\ p \notin with_repo))

\* C15, amended: a checkout directory is removed by a sweep if and only if it
\* was last modified 24 hours or more before the sweep and no live repository
\* matches its slugs; a directory modified less than 24 hours ago stays, and so
\* does the directory of a live repository, whatever its age.
C15_RemovedIffNotRecent ==
    \A r \in finished : ReapDone(r) =>
        \A p \in Paths : r.before[p] = "dir" =>
            /\ entries[p] = "none" <=>
                  (clock - mtime[p] >= DaySeconds /\ p \notin with_repo)
            /\ clock - mtime[p] < DaySeconds => entries[p] = "dir"
            /\ p \in with_repo => entries[p] = "dir"

\* One sweep removed the two-day-old directory of a deleted component and
\* kept the directory of the same kind that was written to half a day ago.
C15_Witness ==
    \E r \in finished :
        /\ ReapDone(r)
        /\ r.before[1] = "dir" /\ r.before[2] = "dir"
        /\ with_repo = {}
        /\ clock - mtime[1] = 2 * DaySeconds /\ entries[1] = "none"
        /\ clock - mtime[2] = ClockStep /\ entries[2] = "dir"

\* C16: with components registered and deleted between the steps of a sweep,
\* the sweep never removes the checkout directory of a component that has a
\* repository at the moment the directory is removed.
C16_LiveNeverRemoved ==
    [][\A p \in Paths :
          (entries[p] = "dir" /\ entries'[p] = "none") => p \notin with_repo]_vars

RemotesDone(r) == r.task = "update_remotes"

\* The messages update_remotes added to the queue holding base messages.
RemotesIds(r) == (r.base + 1)..Len(tasks)

\* C18: under the disabled mode update_remotes enqueues nothing and a manual
\* perform_update still runs its update; under the full and the remote-only
\* mode it enqueues exactly one perform_update with auto=true for each
\* component with a repository of its own and none for a linked one.
C18_OneUpdatePerRepo ==
    /\ \A r \in finished : RemotesDone(r) =>
          IF auto_update = "none" THEN RemotesIds(r) = {}
          ELSE /\ \A i \in RemotesIds(r) :
                     /\ Task(i).kind = "update" /\ Task(i).cls = "Component"
                     /\ Task(i).auto /\ Task(i).state = "Queued"
                     /\ Task(i).pk \notin linked
               /\ \A c \in with_repo :
                     Cardinality({i \in RemotesIds(r) : Task(i).pk = c}) = 1
               /\ \A c \in Comps \ with_repo :
                     {i \in RemotesIds(r) : Task(i).pk = c} = {}
    /\ auto_update = "none" =>
          \A i \in TaskIds :
              (Task(i).kind = "update" /\ ~Task(i).auto /\ Task(i).op # "none")
                  => Task(i).op = "do_update"

\* Under the remote-only mode, with component 2 linked, update_remotes has
\* queued one scheduled update, for component 1, behind a manual update.
C18_Witness ==
    \E r \in finished :
        /\ RemotesDone(r) /\ r.base = 1
        /\ auto_update = "remote" /\ linked = {2}
        /\ Len(tasks) = 2
        /\ Task(2).pk = 1 /\ Task(2).auto /\ Task(2).state = "Queued"

\* C19: a task asking for the lock of its repository is turned away only by a
\* task inside that same lock: when nobody is inside it the task enters and
\* runs its stage, whatever locks of other repositories are held, also when
\* the holder or the asker is a perform_update for a whole project.
C19_OnlyOwnLockBlocks ==
    [][\A i \in TaskIds :
          (Task(i).pc = "lock" /\ tasks'[i] # tasks[i]) =>
              IF lock[Head(Task(i).todo)] = {}
              THEN /\ tasks'[i].pc = "stage"
                   /\ lock'[Head(Task(i).todo)] = {i}
              ELSE tasks'[i].error = "Timeout"]_vars

\* A perform_update for the whole project runs its stage on component 1 while
\* a task for component 2 runs its stage on component 2.
C19_Witness ==
    \E i, j \in TaskIds :
        /\ Task(i).cls = "Project" /\ Task(i).kind = "update"
        /\ Task(i).pc = "stage" /\ Head(Task(i).todo) = 1 /\ lock[1] = {i}
        /\ Task(j).cls = "Component" /\ Task(j).pk = 2
        /\ Task(j).pc = "stage" /\ lock[2] = {j}

\* C20: a component_removal or project_removal whose target is already gone
\* when it runs ends silently, raising nothing and writing no audit record;
\* one whose target exists writes exactly one removal record about it and
\* deletes it.
C20_RemovalSilentOrAudited ==
    [][\A i \in TaskIds :
          ( /\ Task(i).kind \in {"component_removal", "project_removal"}
            /\ Task(i).state = "Queued" /\ tasks'[i] # tasks[i] ) =>
              IF TargetExists(Task(i))
              THEN /\ tasks'[i].state = "Done"
                   /\ changes' = Append(changes, [action |-> Task(i).kind,
                                                  target |-> Task(i).pk])
                   /\ IF Task(i).cls = "Project" THEN Task(i).pk \notin projects'
                      ELSE Task(i).pk \notin components'
              ELSE /\ tasks'[i].state = "Done"
                   /\ tasks'[i].error = "none"
                   /\ changes' = changes]_vars

\* C21: a partition that is empty or was never built raises no error and does
\* not stop the cleanup_fulltext pass: the pass returns normally and the other
\* partitions, those visited after the empty one included, hold no stale entry
\* (no concurrent changes assumed).
C21_EmptyPartitionSkipped ==
    \A r \in finished :
        (CleanupDone(r) /\ r.undisturbed /\ r.skipped # {}) =>
            /\ r.error = "none"
            /\ \A p \in Parts : \A u \in index[p] : u \in units

\* The first partition visited was never built, and the pass went on to clean
\* the stale entries of the two partitions visited after it.
C21_Witness ==
    \E r \in finished :
        /\ CleanupDone(r) /\ r.undisturbed /\ r.error = "none"
        /\ ~built["cs"] /\ r.skipped = {"cs"}
        /\ {<<2, "de">>, <<2, "source">>} \subseteq r.removed
        /\ 1 \in index["source"]

\* C24: with units created, indexed and deleted between the steps of a
\* cleanup_fulltext pass, and primary keys never reused, every index entry the
\* pass removes belongs to a unit that does not exist at the moment of the
\* removal.
C24_LiveEntryNeverRemoved ==
    [][\A e \in cleanup'.removed \ cleanup.removed :
           e[1] \in index[e[2]] => e[1] \notin units]_vars

\* A pass during which units or entries were changed by others has removed
\* the entry of a deleted unit and returned, with a live unit still indexed.
C24_Witness ==
    \E r \in finished :
        /\ CleanupDone(r) /\ ~r.undisturbed
        /\ r.removed # {}
        /\ \E p \in Parts : index[p] \cap units # {}

\* A cleanup_suggestions sweep has just returned, without an exception.
SuggDone(r) == r.task = "cleanup_suggestions" /\ r.error = "none"

\* The suggestions that were, when the sweep began, on the same unit and with
\* exactly the same target text as suggestion s.
GroupOf(r, s) ==
    {o \in SuggIds : r.before[o] # {} /\ r.before[o] = r.before[s]}

\* C23: after one cleanup_suggestions sweep with no concurrent writers, no
\* remaining suggestion has the target text of its translated unit, no two
\* remaining suggestions share unit and exact target text, and of every group
\* of duplicates whose text differs from the unit's translation exactly one
\* suggestion is left.
C23_SuggestionsDeduplicated ==
    \A r \in finished : SuggDone(r) =>
        /\ \A s \in LiveSuggestions :
              ~( /\ unit_text[Row(s).unit].translated
                 /\ unit_text[Row(s).unit].target = Row(s).target )
        /\ \A s, o \in LiveSuggestions :
              (Row(s).unit = Row(o).unit /\ Row(s).target = Row(o).target)
                  => s = o
        /\ \A s \in SuggIds :
              ( /\ r.before[s] # {}
                /\ LET row == CHOOSE x \in r.before[s] : TRUE IN
                   ~( /\ unit_text[row.unit].translated
                      /\ unit_text[row.unit].target = row.target ) )
              => Cardinality(GroupOf(r, s) \cap LiveSuggestions) = 1

\* One sweep over three suggestions on unit 1, translated as "a": the one
\* repeating the translation is gone, and of the two duplicates that differ
\* from it in case only, one is left.
C23_Witness ==
    \E r \in finished :
        /\ SuggDone(r)
        /\ unit_text[1] = [target |-> "a", translated |-> TRUE]
        /\ r.before[1] = {[unit |-> 1, target |-> "a"]}
        /\ r.before[2] = {[unit |-> 1, target |-> "A"]}
        /\ r.before[3] = {[unit |-> 1, target |-> "A"]}
        /\ Cardinality(LiveSuggestions) = 1
        /\ 1 \notin LiveSuggestions

\* A sweep has just ended with an exception raised by the work on one item.
SweepFailed(r, name) == r.task = name /\ r.error # "none"

\* The history holds the Change row of the cleanup of suggestion s.
Logged(s) ==
    \E i \in DOMAIN changes :
        changes[i] = [action |-> "suggestion_cleanup", target |-> s]

\* C22: when a cleanup_suggestions or cleanup_sources sweep fails part-way,
\* the deletions made for the items handled before the failing one stay, and
\* the failing item and the items after it are as they were before the sweep;
\* no item is ever half deleted (a Change row without the deletion, or some of
\* a component's stale source units deleted and others not).
C22_ItemTransactions ==
    /\ \A s \in SuggIds : Logged(s) => suggestions[s] = {}
    /\ \A r \in finished : SweepFailed(r, "cleanup_suggestions") =>
          /\ \A s \in r.deleted : suggestions[s] = {} /\ Logged(s)
          /\ \A s \in SuggIds \ r.deleted :
                /\ suggestions[s] = r.before[s]
                /\ r.before[s] # {} => ~Logged(s)
    /\ \A r \in finished : SweepFailed(r, "cleanup_sources") =>
          /\ \A c \in r.cleaned :
                source_units[c] = r.before[c] \cap other_hashes[c]
          /\ \A c \in Comps \ r.cleaned : source_units[c] = r.before[c]

\* A sweep of suggestions has failed at its second deletion, the first one
\* being kept, and the last sweep of source units failed at component 2 after
\* it had deleted the stale units of component 1.
C22_Witness ==
    /\ \E r \in finished :
          /\ SweepFailed(r, "cleanup_suggestions")
          /\ r.deleted # {}
          /\ \E s \in r.failed : suggestions[s] # {} /\ ToDelete(s, Row(s))
    /\ srcsweep.pc = "idle" /\ srcsweep.cleaned = {1}
    /\ srcsweep.before[1] \ other_hashes[1] # {}
    /\ monolingual = {} /\ StaleSources(1) = {} /\ StaleSources(2) # {}

====
